---- MODULE Spec2Model ----
(***************************************************************************)
(* Model of cors-proxy: the request classifier of allow_request.rs (the   *)
(* six rule predicates and allow) and the router of main.rs.               *)
(*                                                                         *)
(* Strings are sequences of tokens.  The path alphabet is                  *)
(*   "/", "repo", "info", "refs", "git-upload-pack", "git-receive-pack"    *)
(* and the header-value alphabet is listed at HeaderValues below.  No      *)
(* token is a prefix of another and none of the needles the code searches  *)
(* for ("/info/refs", "git-upload-pack", "git-receive-pack",               *)
(* "content-type") can start or end inside a token, so str::ends_with and  *)
(* str::contains on the concatenated text coincide with the token-level    *)
(* EndsWith and Contains below.                                            *)
(*                                                                         *)
(* A Rust bool expression that may panic evaluates to one of               *)
(* "true", "false", "panic".                                               *)
(***************************************************************************)
EXTENDS Naturals, Sequences, FiniteSets

VARIABLES pc, req, verdict, status

vars == <<pc, req, verdict, status>>

\* ---------------------------------------------------------------- bounds
\* number of "/repo" segments in front of the path's ending
MaxDepth == 1
\* number of parameters in a query string
MaxParams == 2

\* ------------------------------------------------- Option / Result / bool
None == <<>>
Some(v) == <<v>>
OptionOf(S) == {None} \cup {Some(v) : v \in S}

Ok(v) == [ok |-> TRUE, val |-> v]
Err == [ok |-> FALSE, val |-> <<>>]

Outcomes == {"true", "false", "panic"}
Bool(b) == IF b THEN "true" ELSE "false"
\* a && b : b is evaluated only when a is true
AndThen(a, b) == IF a = "true" THEN b ELSE a
\* a || b : b is evaluated only when a is false
OrElse(a, b) == IF a = "false" THEN b ELSE a

\* ------------------------------------------------------------ str helpers
EndsWith(s, suffix) ==
    /\ Len(suffix) <= Len(s)
    /\ SubSeq(s, Len(s) - Len(suffix) + 1, Len(s)) = suffix

Contains(s, pat) ==
    \E i \in 1..(Len(s) + 1) :
        /\ i + Len(pat) - 1 <= Len(s)
        /\ SubSeq(s, i, i + Len(pat) - 1) = pat

SeqsUpTo(S, n) == UNION {[1..k -> S] : k \in 0..n}

RECURSIVE Repeat(_, _)
Repeat(s, k) == IF k = 0 THEN <<>> ELSE s \o Repeat(s, k - 1)

\* ------------------------------------------------------------ the inputs
Methods == {"GET", "HEAD", "POST", "OPTIONS", "PUT"}

Endings ==
    { <<"/">>,
      <<"/", "repo">>,
      <<"/", "info", "/", "refs">>,
      <<"info", "/", "refs">>,
      <<"/", "refs">>,
      <<"/", "info", "/", "refs", "/">>,
      <<"/", "git-upload-pack">>,
      <<"git-upload-pack">>,
      <<"/", "git-receive-pack">>,
      <<"/", "git-upload-pack", "/", "info", "/", "refs">>,
      <<"/", "git-receive-pack", "/", "repo">> }

Paths ==
    { p \in { Repeat(<<"/", "repo">>, k) \o e : k \in 0..MaxDepth, e \in Endings } :
        p[1] = "/" }

\* one "key=value" (nested = FALSE) or "key[]=value" (nested = TRUE)
ParamSet ==
    { [key |-> "service", nested |-> FALSE, val |-> "git-upload-pack"],
      [key |-> "service", nested |-> FALSE, val |-> "git-receive-pack"],
      [key |-> "service", nested |-> FALSE, val |-> "invalid"],
      [key |-> "service", nested |-> TRUE,  val |-> "git-upload-pack"],
      [key |-> "other",   nested |-> FALSE, val |-> "git-upload-pack"] }

\* Uri::query(): None without "?", else the text after it
Queries == OptionOf(SeqsUpTo(ParamSet, MaxParams))

\* "<0xFF>" stands for a byte that is not visible ASCII
AcrhValues ==
    { <<"content-type">>,
      <<"authorization", ", ", "content-type">>,
      <<"authorization">>,
      <<"Content-Type">>,
      <<"content-type", "<0xFF>">> }

CtValues ==
    { <<"application/x-git-upload-pack-request">>,
      <<"application/x-git-receive-pack-request">>,
      <<"application/json">>,
      <<"application/x-git-upload-pack-request", "<0xFF>">> }

HeaderValues == AcrhValues \cup CtValues

BuildHeaders(a, c) ==
    [n \in (IF a = None THEN {} ELSE {"access-control-request-headers"})
           \cup (IF c = None THEN {} ELSE {"content-type"})
       |-> IF n = "access-control-request-headers" THEN a[1] ELSE c[1]]

HeaderMaps == { BuildHeaders(a, c) : a \in OptionOf(AcrhValues), c \in OptionOf(CtValues) }

Requests == [method : Methods, path : Paths, query : Queries, headers : HeaderMaps]

\* Request::builder().body(()) : GET / without headers
DefaultRequest ==
    [method |-> "GET", path |-> <<"/">>, query |-> None, headers |-> BuildHeaders(None, None)]

\* ------------------------------------------------------- library helpers
\* Option::unwrap_or_default / Result::unwrap_or_default / unwrap_or
option_unwrap_or(o, d) == IF o = None THEN d ELSE o[1]
result_unwrap_or(r, d) == IF r.ok THEN r.val ELSE d

\* HeaderMap::get
headers_get(r, header_name) ==
    IF header_name \in DOMAIN r.headers THEN Some(r.headers[header_name]) ELSE None

\* HeaderValue::to_str : Err when a byte is not visible ASCII
to_str(h) == IF \E i \in 1..Len(h) : h[i] = "<0xFF>" THEN Err ELSE Ok(h)

\* serde_qs::from_str into HashMap<String, String>: a bracketed key or a
\* key given twice is an error, anything else the flat map
from_str(s) ==
    IF \E i \in 1..Len(s) : s[i].nested
    THEN Err
    ELSE IF \E i, j \in 1..Len(s) : i # j /\ s[i].key = s[j].key
    THEN Err
    ELSE Ok([k \in {s[i].key : i \in 1..Len(s)} |->
                (s[CHOOSE i \in 1..Len(s) : s[i].key = k]).val])

EmptyMap == [k \in {} |-> ""]

\* HashMap::get
map_get(m, k) == IF k \in DOMAIN m THEN Some(m[k]) ELSE None

\* ---------------------------------------------------- allow_request.rs
Url_new(r) ==
    [pathname |-> r.path,
     query |-> result_unwrap_or(from_str(option_unwrap_or(r.query, <<>>)), EmptyMap)]

\* predicate is the closure, a function on header values
header_matches(r, header_name, predicate) ==
    LET h == headers_get(r, header_name)
        header_value == IF h = None THEN None
                        ELSE IF to_str(h[1]).ok THEN Some(to_str(h[1]).val) ELSE None
    IN  IF header_value = None THEN FALSE ELSE predicate[header_value[1]]

header_contains(r, header_name, contains) ==
    header_matches(r, header_name, [v \in HeaderValues |-> Contains(v, contains)])

service_ok(u) ==
    LET s == map_get(u.query, "service")
    IN  IF s = None THEN FALSE ELSE s[1] = "git-upload-pack" \/ s[1] = "git-receive-pack"

is_preflight_info_refs(r, u) ==
    AndThen(Bool(r.method = "OPTIONS"),
    AndThen(Bool(EndsWith(u.pathname, <<"/", "info", "/", "refs">>)),
            Bool(service_ok(u))))

is_info_refs_no_service(r, u) ==
    AndThen(Bool(r.method = "GET"),
            Bool(EndsWith(u.pathname, <<"/", "info", "/", "refs">>)))

is_info_refs(r, u) ==
    AndThen(Bool(r.method = "GET"),
    AndThen(Bool(EndsWith(u.pathname, <<"/", "info", "/", "refs">>)),
            Bool(service_ok(u))))

is_preflight_pull(r) ==
    AndThen(Bool(r.method = "OPTIONS"),
    AndThen(LET h == headers_get(r, "access-control-request-headers")
            IN  IF h = None THEN "panic"
                ELSE Bool(Contains(result_unwrap_or(to_str(h[1]), <<>>), <<"content-type">>)),
            Bool(EndsWith(r.path, <<"git-upload-pack">>))))

is_pull(r) ==
    AndThen(Bool(r.method = "POST"),
    AndThen(LET h == headers_get(r, "content-type")
            IN  IF h = None THEN "panic"
                ELSE Bool(h[1] = <<"application/x-git-upload-pack-request">>),
            Bool(EndsWith(r.path, <<"git-upload-pack">>))))

is_preflight_push(r) ==
    AndThen(Bool(r.method = "OPTIONS"),
    AndThen(Bool(header_contains(r, "access-control-request-headers", <<"content-type">>)),
            Bool(EndsWith(r.path, <<"git-receive-pack">>))))

is_push_any_method(r) ==
    AndThen(Bool(header_matches(r, "content-type",
                 [s \in HeaderValues |-> s = <<"application/x-git-receive-pack-request">>])),
            Bool(EndsWith(r.path, <<"git-receive-pack">>)))

is_push(r) ==
    AndThen(Bool(r.method = "POST"),
    AndThen(Bool(header_matches(r, "content-type",
                 [s \in HeaderValues |-> s = <<"application/x-git-receive-pack-request">>])),
            Bool(EndsWith(r.path, <<"git-receive-pack">>))))

allow_pull_first(r) ==
    LET u == Url_new(r)
    IN  OrElse(is_preflight_pull(r),
        OrElse(is_pull(r),
        OrElse(is_preflight_info_refs(r, u),
        OrElse(is_info_refs(r, u),
        OrElse(is_preflight_push(r),
               is_push(r))))))

allow(r) ==
    LET u == Url_new(r)
    IN  OrElse(is_preflight_info_refs(r, u),
        OrElse(is_info_refs(r, u),
        OrElse(is_preflight_pull(r),
        OrElse(is_pull(r),
        OrElse(is_preflight_push(r),
               is_push(r))))))

\* ------------------------------------------------------------- main.rs
\* process_request answers "Hello, World!" with 200 OK
process_request == 200

\* "/" -> get(process_request), "/*any" -> get(FORBIDDEN); get() serves GET
\* and HEAD and answers any other method with 405
router(r) ==
    IF r.method \in {"GET", "HEAD"}
    THEN IF r.path = <<"/">> THEN process_request ELSE 403
    ELSE 405

\* -------------------------------------------------------- state machine
Init ==
    /\ pc = "idle"
    /\ req = DefaultRequest
    /\ verdict = "none"
    /\ status = 0

\* a request arrives
Receive ==
    /\ pc = "idle"
    /\ \E r \in Requests : req' = r
    /\ pc' = "received"
    /\ UNCHANGED <<verdict, status>>

\* allow(&req) is called on it (only the tests do)
Classify ==
    /\ pc = "received"
    /\ verdict' = allow(req)
    /\ pc' = "classified"
    /\ UNCHANGED <<req, status>>

\* the server answers it through router()
Serve ==
    /\ pc = "received"
    /\ status' = router(req)
    /\ pc' = "served"
    /\ UNCHANGED <<req, verdict>>

\* the request is dropped
Finish ==
    /\ pc \in {"classified", "served"}
    /\ pc' = "idle"
    /\ req' = DefaultRequest
    /\ verdict' = "none"
    /\ status' = 0

Next == Receive \/ Classify \/ Serve \/ Finish

Spec == Init /\ [][Next]_vars

TypeOK ==
    /\ pc \in {"idle", "received", "classified", "served"}
    /\ req \in Requests
    /\ verdict \in Outcomes \cup {"none"}
    /\ status \in {0, 200, 403, 405}
\* ---------------------------------------------------------------- claims
InfoRefsSuffix == <<"/", "info", "/", "refs">>

\* the service parameter of the descriptor is one of the two git services
ServiceIsGit(r) ==
    LET q == Url_new(r).query
    IN  "service" \in DOMAIN q /\ q["service"] \in {"git-upload-pack", "git-receive-pack"}

\* the header is present with a text value satisfying the test
HeaderText(r, name) ==
    IF name \in DOMAIN r.headers /\ to_str(r.headers[name]).ok
    THEN Some(r.headers[name]) ELSE None

\* the table of six rules, as the specification states it
TableRules(r) ==
    LET acrh == HeaderText(r, "access-control-request-headers")
        ct == HeaderText(r, "content-type")
    IN  \/ /\ r.method \in {"OPTIONS", "GET"}
           /\ EndsWith(r.path, InfoRefsSuffix)
           /\ ServiceIsGit(r)
        \/ /\ r.method = "OPTIONS"
           /\ EndsWith(r.path, <<"git-upload-pack">>) \/ EndsWith(r.path, <<"git-receive-pack">>)
           /\ acrh # None /\ Contains(acrh[1], <<"content-type">>)
        \/ /\ r.method = "POST"
           /\ EndsWith(r.path, <<"git-upload-pack">>)
           /\ ct = Some(<<"application/x-git-upload-pack-request">>)
        \/ /\ r.method = "POST"
           /\ EndsWith(r.path, <<"git-receive-pack">>)
           /\ ct = Some(<<"application/x-git-receive-pack-request">>)

\* C1: allow(req) returns a boolean for every request; it never panics.
C1_AllowNeverPanics ==
    pc = "classified" => verdict \in {"true", "false"}

\* C2: allow(req) returns true exactly when one of the six table rules
\* holds, and false for every other request.
C2_AllowIffTable ==
    pc = "classified" => verdict = Bool(TableRules(req))

\* C3: an OPTIONS request whose path ends in /info/refs and whose service
\* parameter is git-upload-pack or git-receive-pack is allowed, whatever
\* headers it carries or lacks.
C3_PreflightInfoRefsAllowed ==
    (/\ pc = "classified"
     /\ req.method = "OPTIONS"
     /\ EndsWith(req.path, InfoRefsSuffix)
     /\ ServiceIsGit(req))
    => verdict = "true"

C3_Witness ==
    /\ pc = "classified"
    /\ req.method = "OPTIONS"
    /\ EndsWith(req.path, InfoRefsSuffix)
    /\ ServiceIsGit(req)
    /\ DOMAIN req.headers = {}
    /\ verdict = "true"

\* C4: a POST whose path ends in git-upload-pack and which has no
\* content-type header is classified false.
C4_PullWithoutContentTypeDenied ==
    (/\ pc = "classified"
     /\ req.method = "POST"
     /\ EndsWith(req.path, <<"git-upload-pack">>)
     /\ "content-type" \notin DOMAIN req.headers)
    => verdict = "false"

\* C5: for an OPTIONS request without access-control-request-headers both
\* is_preflight_pull and is_preflight_push are false, without an error.
C5_PreflightRulesFalseOnAbsence ==
    (/\ pc = "received"
     /\ req.method = "OPTIONS"
     /\ "access-control-request-headers" \notin DOMAIN req.headers)
    => /\ is_preflight_pull(req) = "false"
       /\ is_preflight_push(req) = "false"

\* C6: when the query string is absent or unparseable, Url::new yields an
\* empty map, both Info-Refs rules are false and classifying the request
\* does not crash.
C6_BadQueryDegrades ==
    (/\ pc = "classified"
     /\ (req.query = None \/ ~from_str(req.query[1]).ok))
    => /\ Url_new(req).query = EmptyMap
       /\ is_info_refs(req, Url_new(req)) = "false"
       /\ is_preflight_info_refs(req, Url_new(req)) = "false"
       /\ verdict # "panic"

\* C7: when the service parameter is absent or is neither git-upload-pack
\* nor git-receive-pack, is_info_refs and is_preflight_info_refs are false
\* whatever the method and path; the other four rules do not read the
\* query, so they give what they give for the same request without one.
C7_InfoRefsNeedService ==
    (pc = "classified" /\ ~ServiceIsGit(req))
    => LET noq == [req EXCEPT !.query = None]
       IN  /\ is_info_refs(req, Url_new(req)) = "false"
           /\ is_preflight_info_refs(req, Url_new(req)) = "false"
           /\ is_preflight_pull(req) = is_preflight_pull(noq)
           /\ is_pull(req) = is_pull(noq)
           /\ is_preflight_push(req) = is_preflight_push(noq)
           /\ is_push(req) = is_push(noq)

C7_Witness ==
    /\ pc = "classified"
    /\ req.method = "GET"
    /\ EndsWith(req.path, InfoRefsSuffix)
    /\ req.query = Some(<<[key |-> "service", nested |-> FALSE, val |-> "invalid"]>>)
    /\ verdict = "false"

\* C8: with content-type application/x-git-receive-pack-request and a path
\* ending in git-receive-pack, POST is allowed and GET is denied.
C8_PushPostNotGet ==
    (/\ pc = "classified"
     /\ headers_get(req, "content-type") = Some(<<"application/x-git-receive-pack-request">>)
     /\ EndsWith(req.path, <<"git-receive-pack">>))
    => /\ req.method = "POST" => verdict = "true"
       /\ req.method = "GET" => verdict = "false"

C8_Witness ==
    /\ pc = "classified"
    /\ headers_get(req, "content-type") = Some(<<"application/x-git-receive-pack-request">>)
    /\ EndsWith(req.path, <<"git-receive-pack">>)
    /\ req.method = "POST"
    /\ verdict = "true"

\* C9: the serving layer answers 403 exactly when allow denies the request.
C9_ForbiddenIffDenied ==
    pc = "served" => (status = 403 <=> allow(req) = "false")

\* the six rules' outcomes, in the order allow lists them
RuleOutcomes(r) ==
    LET u == Url_new(r)
    IN  <<is_preflight_info_refs(r, u), is_info_refs(r, u), is_preflight_pull(r),
          is_pull(r), is_preflight_push(r), is_push(r)>>

RECURSIVE ShortCircuit(_, _, _)
\* o[order[i]] || o[order[i+1]] || ...
ShortCircuit(o, order, i) ==
    IF i > 6 THEN "false"
    ELSE OrElse(o[order[i]], ShortCircuit(o, order, i + 1))

\* every rule is evaluated, then the results are OR-ed
FullOr(o) ==
    IF \E i \in 1..Len(o) : o[i] = "panic" THEN "panic"
    ELSE Bool(\E i \in 1..Len(o) : o[i] = "true")

\* Orders of the six rules: the rotations of allow's order and their
\* reversals, so that every rule comes first in some order and last in
\* another.  A short-circuit OR returns the first outcome that is not
\* false, so these twelve orders produce every result that any of the 720
\* orders can produce.
Orders ==
    { [i \in 1..6 |-> ((i + k) % 6) + 1] : k \in 0..5 }
        \cup { [i \in 1..6 |-> ((6 - i + k) % 6) + 1] : k \in 0..5 }

\* C10: short-circuit evaluation in allow's order, the full OR and
\* short-circuit evaluation in any other order give the same outcome.
C10_OrderInsensitive ==
    pc = "classified" =>
        LET o == RuleOutcomes(req)
        IN  /\ FullOr(o) = verdict
            /\ \A order \in Orders : ShortCircuit(o, order, 1) = verdict
====
